---- MODULE Spec2Model ----
(***************************************************************************)
(* Model of plot.py: the log parsers, the two result collectors, the text  *)
(* summaries, the chart data preparation and main.                         *)
(*                                                                         *)
(* Numbers.  A Python float is modelled as an exact rational <<num, den>>  *)
(* in lowest terms (den > 0); None is the empty tuple.  A raised           *)
(* ValueError is the one-element tuple <<"ValueError">>.                   *)
(*                                                                         *)
(* Files.  A log file either does not exist or has a sequence of lines.  A *)
(* line is classified by the one regular expression of plot.py it matches  *)
(* ("matmult", "cycles", "bandwidth") together with the text captured by   *)
(* the group of that expression, or it is an "other" line that matches     *)
(* none.  The captured text is a sequence of characters.                   *)
(***************************************************************************)
EXTENDS Integers, Sequences, FiniteSets, TLC

VARIABLES benchmark, pc, fs, one_bank_results, all_banks_results,
          started, errors, table, chart, image,
          file, parsed, test_dir, entry

vars == <<benchmark, pc, fs, one_bank_results, all_banks_results,
          started, errors, table, chart, image,
          file, parsed, test_dir, entry>>

mainVars == <<benchmark, pc, fs, one_bank_results, all_banks_results,
              started, errors, table, chart, image>>

parseVars == <<file, parsed>>

caseVars == <<test_dir, entry>>

(***************************************************************************)
(* Bounds of the explored inputs.                                          *)
(***************************************************************************)
MaxLines == 2

MaxCapLen == 2

MaxDirs == 2

(***************************************************************************)
(* Values.                                                                 *)
(***************************************************************************)
None == <<>>

ValueError == <<"ValueError">>

RECURSIVE GCD(_, _)
GCD(a, b) == IF b = 0 THEN a ELSE GCD(b, a % b)

Rat(n, d) == <<n \div GCD(n, d), d \div GCD(n, d)>>

Zero == <<0, 1>>

Add(x, y) == Rat(x[1] * y[2] + y[1] * x[2], x[2] * y[2])

Div(x, y) == Rat(x[1] * y[2], x[2] * y[1])

Positive(x) == x[1] > 0

\* Python truthiness of a value that is None or a float.
Truthy(v) == v # None /\ v[1] # 0

\* Python `v or 0`.
OrZero(v) == IF Truthy(v) THEN v ELSE Zero

RECURSIVE sum(_)
sum(xs) == IF xs = <<>> THEN Zero ELSE Add(xs[1], sum(Tail(xs)))

(***************************************************************************)
(* float(text) for a text captured by [\d.]+ or \d+ : the text is a number *)
(* when it has at least one digit and at most one point; otherwise float   *)
(* raises ValueError.                                                      *)
(***************************************************************************)
DigitChars == <<"0", "1", "2", "3", "4", "5", "6", "7", "8", "9">>

IsDigit(c) == \E i \in 1..10 : DigitChars[i] = c

DigitVal(c) == (CHOOSE i \in 1..10 : DigitChars[i] = c) - 1

RECURSIVE Pow10(_)
Pow10(n) == IF n = 0 THEN 1 ELSE 10 * Pow10(n - 1)

RECURSIVE IntVal(_)
IntVal(ds) ==
    IF ds = <<>> THEN 0
    ELSE 10 * IntVal(SubSeq(ds, 1, Len(ds) - 1)) + DigitVal(ds[Len(ds)])

Points(text) == {i \in 1..Len(text) : text[i] = "."}

OnlyDigits(text) == SelectSeq(text, IsDigit)

float(text) ==
    IF Cardinality(Points(text)) > 1 \/ OnlyDigits(text) = <<>>
    THEN ValueError
    ELSE LET decimals == IF Points(text) = {} THEN 0
                         ELSE Len(text) - (CHOOSE i \in Points(text) : TRUE)
         IN  Rat(IntVal(OnlyDigits(text)), Pow10(decimals))

(***************************************************************************)
(* Regular-expression search over the lines of a file.                     *)
(***************************************************************************)
Line(kind, cap) == [kind |-> kind, cap |-> cap]

Other == Line("other", <<>>)

FileNotFound == [exists |-> FALSE, content |-> <<>>]

File(content) == [exists |-> TRUE, content |-> content]

\* re.findall: the captured texts of all matching lines, in file order.
RECURSIVE findall(_, _)
findall(kind, content) ==
    IF content = <<>> THEN <<>>
    ELSE IF content[1].kind = kind
         THEN <<content[1].cap>> \o findall(kind, Tail(content))
         ELSE findall(kind, Tail(content))

\* re.search: the position of the leftmost matching line, or 0 (no match).
search(kind, content) ==
    IF \E i \in 1..Len(content) : content[i].kind = kind
    THEN CHOOSE i \in 1..Len(content) :
            /\ content[i].kind = kind
            /\ \A j \in 1..(i - 1) : content[j].kind # kind
    ELSE 0

parse_victim_log_matmult(f) ==
    IF ~f.exists THEN None
    ELSE LET match == search("matmult", f.content)
         IN  IF match # 0 THEN float(f.content[match].cap) ELSE None

\* variant: the first match instead of the last
parse_victim_log_sdvbs_first(f) ==
    IF ~f.exists THEN None
    ELSE LET matches == findall("cycles", f.content)
         IN  IF matches # <<>> THEN float(matches[1]) ELSE None

parse_victim_log_sdvbs(f) ==
    IF ~f.exists THEN None
    ELSE LET matches == findall("cycles", f.content)
         IN  IF matches # <<>> THEN float(matches[Len(matches)]) ELSE None

parse_attacker_log(f) ==
    IF ~f.exists THEN None
    ELSE LET match == search("bandwidth", f.content)
         IN  IF match # 0 THEN float(f.content[match].cap) ELSE None

(***************************************************************************)
(* One test case of a collector: the body of the loop over the key space.  *)
(* A test-case directory holds the two victim logs and the three attacker  *)
(* logs.  A ValueError raised by a parser is caught nowhere in plot.py, so *)
(* it leaves the collector: the case then yields raised = TRUE.            *)
(***************************************************************************)
Cores == <<1, 2, 3>>

TestDir(solo, attack, cores) == [solo |-> solo, attack |-> attack, cores |-> cores]

IsNotNone(bw) == bw # None

\* variant: `if bw:` instead of `if bw is not None:`
attacker_bandwidths_truthy(dir) ==
    SelectSeq([i \in 1..Len(Cores) |-> parse_attacker_log(dir.cores[Cores[i]])], Truthy)

\* for core in [1, 2, 3]: bw = parse_attacker_log(...); if bw is not None: append
attacker_bandwidths(dir) ==
    SelectSeq([i \in 1..Len(Cores) |-> parse_attacker_log(dir.cores[Cores[i]])], IsNotNone)

\* slowdown = None; if solo and attack and solo > 0: slowdown = attack / solo
slowdown(solo, attack) ==
    IF Truthy(solo) /\ Truthy(attack) /\ Positive(solo) THEN Div(attack, solo) ELSE None

\* variant: `sum(attacker_bandwidths) or None`
aggregate_bw_or_none(bws) == IF Truthy(sum(bws)) THEN sum(bws) ELSE None

\* aggregate_bw = sum(attacker_bandwidths) if attacker_bandwidths else None
aggregate_bw(bws) == IF bws # <<>> THEN sum(bws) ELSE None

Raises(dir, solo, attack) ==
    \/ solo = ValueError
    \/ attack = ValueError
    \/ \E i \in 1..Len(Cores) : parse_attacker_log(dir.cores[Cores[i]]) = ValueError

NoMetrics == [slowdown |-> None, aggregate_bw |-> None, attacker_bandwidths |-> <<>>]

matmult_case(dir) ==
    LET solo_time == parse_victim_log_matmult(dir.solo)
        attack_time == parse_victim_log_matmult(dir.attack)
    IN  IF Raises(dir, solo_time, attack_time)
        THEN [raised |-> TRUE, metrics |-> NoMetrics]
        ELSE [raised |-> FALSE,
              metrics |-> [solo_time |-> solo_time,
                           attack_time |-> attack_time,
                           slowdown |-> slowdown(solo_time, attack_time),
                           aggregate_bw |-> aggregate_bw(attacker_bandwidths(dir)),
                           attacker_bandwidths |-> attacker_bandwidths(dir)]]

sdvbs_case(dir) ==
    LET solo_cycles == parse_victim_log_sdvbs(dir.solo)
        attack_cycles == parse_victim_log_sdvbs(dir.attack)
    IN  IF Raises(dir, solo_cycles, attack_cycles)
        THEN [raised |-> TRUE, metrics |-> NoMetrics]
        ELSE [raised |-> FALSE,
              metrics |-> [solo_cycles |-> solo_cycles,
                           attack_cycles |-> attack_cycles,
                           slowdown |-> slowdown(solo_cycles, attack_cycles),
                           aggregate_bw |-> aggregate_bw(attacker_bandwidths(dir)),
                           attacker_bandwidths |-> attacker_bandwidths(dir)]]

(***************************************************************************)
(* The collectors.  A configuration root is [exists, dirs]; dirs maps the  *)
(* test-case subdirectories that exist (named by their key) to their logs. *)
(***************************************************************************)
dims == <<1024, 2048>>

algos == <<0, 1, 2, 3, 4>>

workloads == <<"disparity", "mser", "sift", "stitch", "tracking">>

\* for dim in dims: for algo in algos: key = (dim, algo)
matmult_keys ==
    [i \in 1..(Len(dims) * Len(algos)) |->
        <<dims[((i - 1) \div Len(algos)) + 1], algos[((i - 1) % Len(algos)) + 1]>>]

Range(s) == {s[i] : i \in DOMAIN s}

EmptyDict == [k \in {} |-> NoMetrics]

\* results[key] = value
Put(results, key, value) ==
    [k \in DOMAIN results \cup {key} |-> IF k = key THEN value ELSE results[k]]

\* variant: `break` instead of `continue` at a missing test-case directory
RECURSIVE collect_matmult_from_break(_, _, _)
collect_matmult_from_break(base_dir, i, results) ==
    IF i > Len(matmult_keys) THEN [raised |-> FALSE, results |-> results]
    ELSE LET key == matmult_keys[i]
         IN  IF key \notin DOMAIN base_dir.dirs
             THEN [raised |-> FALSE, results |-> results]
             ELSE IF matmult_case(base_dir.dirs[key]).raised
                  THEN [raised |-> TRUE, results |-> EmptyDict]
                  ELSE collect_matmult_from_break(base_dir, i + 1,
                           Put(results, key, matmult_case(base_dir.dirs[key]).metrics))

RECURSIVE collect_matmult_from(_, _, _)
collect_matmult_from(base_dir, i, results) ==
    IF i > Len(matmult_keys) THEN [raised |-> FALSE, results |-> results]
    ELSE LET key == matmult_keys[i]
         IN  IF key \notin DOMAIN base_dir.dirs
             THEN collect_matmult_from(base_dir, i + 1, results)
             ELSE IF matmult_case(base_dir.dirs[key]).raised
                  THEN [raised |-> TRUE, results |-> EmptyDict]
                  ELSE collect_matmult_from(base_dir, i + 1,
                           Put(results, key, matmult_case(base_dir.dirs[key]).metrics))

collect_results_matmult(base_dir) == collect_matmult_from(base_dir, 1, EmptyDict)

RECURSIVE collect_sdvbs_from(_, _, _)
collect_sdvbs_from(base_dir, i, results) ==
    IF i > Len(workloads) THEN [raised |-> FALSE, results |-> results]
    ELSE LET workload == workloads[i]
         IN  IF workload \notin DOMAIN base_dir.dirs
             THEN collect_sdvbs_from(base_dir, i + 1, results)
             ELSE IF sdvbs_case(base_dir.dirs[workload]).raised
                  THEN [raised |-> TRUE, results |-> EmptyDict]
                  ELSE collect_sdvbs_from(base_dir, i + 1,
                           Put(results, workload, sdvbs_case(base_dir.dirs[workload]).metrics))

collect_results_sdvbs(base_dir) == collect_sdvbs_from(base_dir, 1, EmptyDict)

(***************************************************************************)
(* The text summaries and the chart data.  Both are modelled as the        *)
(* sequence of rows (bar groups) they emit, one per key, each carrying the *)
(* two numbers shown for each configuration.                               *)
(***************************************************************************)
Row(key, one_slowdown, one_bw, all_slowdown, all_bw) ==
    [key |-> key, one_slowdown |-> one_slowdown, one_bw |-> one_bw,
     all_slowdown |-> all_slowdown, all_bw |-> all_bw]

\* results.get(key, {}).get(field)
get(results, key, field) ==
    IF key \in DOMAIN results THEN results[key][field] ELSE None

\* variant: the keys of the one-bank dataset only
InOneBankOnly(one, all) == {k \in Range(workloads) : k \in DOMAIN one}

\* sorted(set(list(one.keys()) + list(all.keys()))): the workload names in
\* alphabetical order, which is the order of the workloads list.
InEither(one, all) == {k \in Range(workloads) : k \in DOMAIN one \/ k \in DOMAIN all}

all_workloads(one, all) ==
    LET RECURSIVE sorted(_)
        sorted(i) == IF i > Len(workloads) THEN <<>>
                     ELSE IF workloads[i] \in InEither(one, all)
                          THEN <<workloads[i]>> \o sorted(i + 1)
                          ELSE sorted(i + 1)
    IN  sorted(1)

summary_row(one, all, key) ==
    Row(key,
        OrZero(get(one, key, "slowdown")), OrZero(get(one, key, "aggregate_bw")),
        OrZero(get(all, key, "slowdown")), OrZero(get(all, key, "aggregate_bw")))

print_summary_matmult(one, all) ==
    [i \in 1..Len(matmult_keys) |-> summary_row(one, all, matmult_keys[i])]

print_summary_sdvbs(one, all) ==
    [i \in 1..Len(all_workloads(one, all)) |-> summary_row(one, all, all_workloads(one, all)[i])]

\* if key in results and results[key]['slowdown']: (slowdown, aggregate_bw or 0)
\* else: (0, 0)
bar_slowdown(results, key) ==
    IF key \in DOMAIN results /\ Truthy(results[key].slowdown)
    THEN results[key].slowdown ELSE Zero

bar_bw(results, key) ==
    IF key \in DOMAIN results /\ Truthy(results[key].slowdown)
    THEN OrZero(results[key].aggregate_bw) ELSE Zero

bars(one, all, key) ==
    Row(key, bar_slowdown(one, key), bar_bw(one, key),
             bar_slowdown(all, key), bar_bw(all, key))

plot_results_matmult(one, all) ==
    [i \in 1..Len(matmult_keys) |-> bars(one, all, matmult_keys[i])]

plot_results_sdvbs(one, all) ==
    [i \in 1..Len(all_workloads(one, all)) |-> bars(one, all, all_workloads(one, all)[i])]

(***************************************************************************)
(* Inputs: log files, test-case directories and directory trees.           *)
(***************************************************************************)
Benchmarks == {"matmult", "sdvbs"}

VictimKind(b) == IF b = "matmult" THEN "matmult" ELSE "cycles"

Keys(b) == IF b = "matmult" THEN Range(matmult_keys) ELSE Range(workloads)

SeqsUpTo(S, n) == UNION {[1..k -> S] : k \in 0..n}

\* texts the group [\d.]+ can capture, and texts the group \d+ can capture
CapDigits == {"0", "1"}

Caps(kind) ==
    IF kind = "cycles" THEN SeqsUpTo(CapDigits, MaxCapLen) \ {<<>>}
    ELSE SeqsUpTo(CapDigits \cup {"."}, MaxCapLen) \ {<<>>}

LogKinds == {"matmult", "cycles", "bandwidth"}

Lines(kind) == {Other} \cup {Line(kind, t) : t \in Caps(kind)}

\* f is a missing file or a log of at most MaxLines lines of one kind
IsLog(f) ==
    \/ f = FileNotFound
    \/ \E kind \in LogKinds : \E n \in 0..MaxLines :
          \E c \in [1..n -> Lines(kind)] : f = File(c)

OneLine(kind, text) == File(<<Line(kind, text)>>)

VictimTexts(b) ==
    IF b = "matmult" THEN {<<"0">>, <<"2">>, <<"5">>, <<"0", ".", "5">>, <<".">>}
    ELSE {<<"0">>, <<"2">>, <<"5">>}

VictimLogs(b) ==
    {FileNotFound, File(<<Other>>)} \cup {OneLine(VictimKind(b), t) : t \in VictimTexts(b)}

AttackerLogs ==
    {FileNotFound} \cup
    {OneLine("bandwidth", t) : t \in {<<"0">>, <<"3">>, <<"1", ".", "5">>, <<"1", ".", "2", ".", "3">>}}

CaseDirs(b) ==
    {TestDir(s, a, c) : s \in VictimLogs(b), a \in VictimLogs(b), c \in [1..3 -> AttackerLogs]}

\* the test-case directories a tree is built from
SampleDirs(b) ==
    LET V(t) == OneLine(VictimKind(b), t)
        B(t) == OneLine("bandwidth", t)
        NF == FileNotFound
    IN  { TestDir(NF, NF, <<NF, NF, NF>>),
          TestDir(V(<<"2">>), V(<<"6">>), <<B(<<"3">>), B(<<"0">>), B(<<"4">>)>>),
          TestDir(NF, V(<<"6">>), <<NF, B(<<"5">>), NF>>),
          TestDir(V(<<"4">>), V(<<"2">>), <<NF, NF, NF>>),
          TestDir(V(<<"2">>), V(<<"6">>), <<B(<<"3">>), B(<<".">>), NF>>) }

RECURSIVE SubsetsUpTo(_, _)
SubsetsUpTo(S, n) ==
    IF n = 0 THEN {{}}
    ELSE SubsetsUpTo(S, n - 1) \cup {T \cup {x} : T \in SubsetsUpTo(S, n - 1), x \in S}

Configs == {"one_bank", "all_banks"}

\* the trees with the roots R and the test-case directories placed by d
Tree(R, d) ==
    [c \in Configs |->
        [exists |-> c \in R,
         dirs |-> [k \in {x[2] : x \in {y \in DOMAIN d : y[1] = c}} |-> d[<<c, k>>]]]]

\* fs is a tree of at most MaxDirs test-case directories under existing roots
IsTree(tree, b) ==
    \E R \in SUBSET Configs :
        \E S \in SubsetsUpTo(R \X Keys(b), MaxDirs) :
            \E d \in [S -> SampleDirs(b)] : tree = Tree(R, d)

(***************************************************************************)
(* main.                                                                   *)
(***************************************************************************)
NotParsed == [by |-> "none", value |-> None]

NoEntry == [by |-> "none", raised |-> FALSE, metrics |-> NoMetrics]

NoOutput == [printed |-> FALSE, rows |-> <<>>]

IdleParse == file = FileNotFound /\ parsed = NotParsed

IdleCase ==
    /\ test_dir = TestDir(FileNotFound, FileNotFound, <<FileNotFound, FileNotFound, FileNotFound>>)
    /\ entry = NoEntry

Init ==
    /\ benchmark \in Benchmarks
    /\ pc = "check_one_bank"
    /\ IsTree(fs, benchmark)
    /\ one_bank_results = EmptyDict
    /\ all_banks_results = EmptyDict
    /\ started = {}
    /\ errors = <<>>
    /\ table = NoOutput
    /\ chart = NoOutput
    /\ image = FALSE
    /\ IdleParse
    /\ IdleCase

collect_results(base_dir) ==
    IF benchmark = "matmult" THEN collect_results_matmult(base_dir)
    ELSE collect_results_sdvbs(base_dir)

\* if not os.path.exists(args.one_bank_dir): print(error); return
CheckOneBankDir ==
    /\ pc = "check_one_bank"
    /\ IF ~fs["one_bank"].exists
       THEN errors' = Append(errors, "one_bank") /\ pc' = "returned"
       ELSE errors' = errors /\ pc' = "check_all_banks"
    /\ UNCHANGED <<benchmark, fs, one_bank_results, all_banks_results, started,
                   table, chart, image, parseVars, caseVars>>

\* variant: the second check tests the one-bank directory again
CheckAllBanksDir_one_bank_again ==
    /\ pc = "check_all_banks"
    /\ IF ~fs["one_bank"].exists
       THEN errors' = Append(errors, "all_banks") /\ pc' = "returned"
       ELSE errors' = errors /\ pc' = "collect_one_bank"
    /\ UNCHANGED <<benchmark, fs, one_bank_results, all_banks_results, started,
                   table, chart, image, parseVars, caseVars>>

\* if not os.path.exists(args.all_banks_dir): print(error); return
CheckAllBanksDir ==
    /\ pc = "check_all_banks"
    /\ IF ~fs["all_banks"].exists
       THEN errors' = Append(errors, "all_banks") /\ pc' = "returned"
       ELSE errors' = errors /\ pc' = "collect_one_bank"
    /\ UNCHANGED <<benchmark, fs, one_bank_results, all_banks_results, started,
                   table, chart, image, parseVars, caseVars>>

\* one_bank_results = collect_results_*(args.one_bank_dir)
CollectOneBank ==
    /\ pc = "collect_one_bank"
    /\ started' = started \cup {"one_bank"}
    /\ IF collect_results(fs["one_bank"]).raised
       THEN pc' = "raised" /\ one_bank_results' = one_bank_results
       ELSE pc' = "collect_all_banks"
            /\ one_bank_results' = collect_results(fs["one_bank"]).results
    /\ UNCHANGED <<benchmark, fs, all_banks_results, errors,
                   table, chart, image, parseVars, caseVars>>

\* all_banks_results = collect_results_*(args.all_banks_dir)
CollectAllBanks ==
    /\ pc = "collect_all_banks"
    /\ started' = started \cup {"all_banks"}
    /\ IF collect_results(fs["all_banks"]).raised
       THEN pc' = "raised" /\ all_banks_results' = all_banks_results
       ELSE pc' = "print_summary"
            /\ all_banks_results' = collect_results(fs["all_banks"]).results
    /\ UNCHANGED <<benchmark, fs, one_bank_results, errors,
                   table, chart, image, parseVars, caseVars>>

\* variant: results.setdefault(key, {}) instead of results.get(key, {})
setdefault(results, keys) ==
    [k \in DOMAIN results \cup keys |-> IF k \in DOMAIN results THEN results[k] ELSE NoMetrics]

PrintSummary_setdefault ==
    /\ pc = "print_summary"
    /\ table' = [printed |-> TRUE,
                 rows |-> IF benchmark = "matmult"
                          THEN print_summary_matmult(one_bank_results, all_banks_results)
                          ELSE print_summary_sdvbs(one_bank_results, all_banks_results)]
    /\ one_bank_results' =
          setdefault(one_bank_results, DOMAIN one_bank_results \cup DOMAIN all_banks_results)
    /\ all_banks_results' =
          setdefault(all_banks_results, DOMAIN one_bank_results \cup DOMAIN all_banks_results)
    /\ pc' = "plot_results"
    /\ UNCHANGED <<benchmark, fs, started, errors, chart, image, parseVars, caseVars>>

\* print_summary_*(one_bank_results, all_banks_results)
PrintSummary ==
    /\ pc = "print_summary"
    /\ table' = [printed |-> TRUE,
                 rows |-> IF benchmark = "matmult"
                          THEN print_summary_matmult(one_bank_results, all_banks_results)
                          ELSE print_summary_sdvbs(one_bank_results, all_banks_results)]
    /\ pc' = "plot_results"
    /\ UNCHANGED <<benchmark, fs, one_bank_results, all_banks_results, started, errors,
                   chart, image, parseVars, caseVars>>

\* plot_results_*(one_bank_results, all_banks_results, args.output); the
\* vision variant returns before drawing when there is no workload at all.
PlotResults ==
    /\ pc = "plot_results"
    /\ IF benchmark = "matmult"
       THEN /\ chart' = [printed |-> TRUE,
                         rows |-> plot_results_matmult(one_bank_results, all_banks_results)]
            /\ image' = TRUE
       ELSE IF all_workloads(one_bank_results, all_banks_results) = <<>>
            THEN chart' = chart /\ image' = image
            ELSE /\ chart' = [printed |-> TRUE,
                              rows |-> plot_results_sdvbs(one_bank_results, all_banks_results)]
                 /\ image' = TRUE
    /\ pc' = "returned"
    /\ UNCHANGED <<benchmark, fs, one_bank_results, all_banks_results, started, errors,
                   table, parseVars, caseVars>>

Next ==
    \/ CheckOneBankDir
    \/ CheckAllBanksDir
    \/ CollectOneBank
    \/ CollectAllBanks
    \/ PrintSummary
    \/ PlotResults

Spec == Init /\ [][Next]_vars

(***************************************************************************)
(* The parsers on their own: one log file, parsed by one of the parsers.   *)
(***************************************************************************)
IdleMain ==
    /\ pc = "idle"
    /\ fs = Tree({}, <<>>)
    /\ one_bank_results = EmptyDict
    /\ all_banks_results = EmptyDict
    /\ started = {}
    /\ errors = <<>>
    /\ table = NoOutput
    /\ chart = NoOutput
    /\ image = FALSE

ParseInit ==
    /\ benchmark = "none"
    /\ IdleMain
    /\ IdleCase
    /\ IsLog(file)
    /\ parsed = NotParsed

ParseVictimMatmult ==
    /\ parsed.by = "none"
    /\ parsed' = [by |-> "parse_victim_log_matmult", value |-> parse_victim_log_matmult(file)]
    /\ UNCHANGED <<mainVars, file, caseVars>>

ParseVictimSdvbs ==
    /\ parsed.by = "none"
    /\ parsed' = [by |-> "parse_victim_log_sdvbs", value |-> parse_victim_log_sdvbs(file)]
    /\ UNCHANGED <<mainVars, file, caseVars>>

ParseAttacker ==
    /\ parsed.by = "none"
    /\ parsed' = [by |-> "parse_attacker_log", value |-> parse_attacker_log(file)]
    /\ UNCHANGED <<mainVars, file, caseVars>>

ParseNext == ParseVictimMatmult \/ ParseVictimSdvbs \/ ParseAttacker

SpecParse == ParseInit /\ [][ParseNext]_vars

(***************************************************************************)
(* One test case on its own: one test-case directory, collected by the     *)
(* loop body of the collector of its benchmark.                            *)
(***************************************************************************)
CaseInit ==
    /\ benchmark \in Benchmarks
    /\ IdleMain
    /\ IdleParse
    /\ test_dir \in CaseDirs(benchmark)
    /\ entry = NoEntry

CollectCaseMatmult ==
    /\ benchmark = "matmult"
    /\ entry.by = "none"
    /\ entry' = [by |-> "collect_results_matmult",
                 raised |-> matmult_case(test_dir).raised,
                 metrics |-> matmult_case(test_dir).metrics]
    /\ UNCHANGED <<mainVars, parseVars, test_dir>>

CollectCaseSdvbs ==
    /\ benchmark = "sdvbs"
    /\ entry.by = "none"
    /\ entry' = [by |-> "collect_results_sdvbs",
                 raised |-> sdvbs_case(test_dir).raised,
                 metrics |-> sdvbs_case(test_dir).metrics]
    /\ UNCHANGED <<mainVars, parseVars, test_dir>>

CaseNext == CollectCaseMatmult \/ CollectCaseSdvbs

SpecCase == CaseInit /\ [][CaseNext]_vars

(***************************************************************************)
(* Properties.                                                             *)
(***************************************************************************)
Inserted == entry.by # "none" /\ ~entry.raised

Solo == IF entry.by = "collect_results_matmult"
        THEN entry.metrics.solo_time ELSE entry.metrics.solo_cycles

Interfered == IF entry.by = "collect_results_matmult"
              THEN entry.metrics.attack_time ELSE entry.metrics.attack_cycles

Reading(core) == parse_attacker_log(test_dir.cores[core])

PresentCores == {core \in 1..3 : Reading(core) # None}

ReadingOrZero(core) == IF Reading(core) # None THEN Reading(core) ELSE Zero

\* C1: an inserted entry has a slowdown exactly when solo and interfered are
\* both present and solo > 0, and the slowdown then equals interfered / solo
\* (a slowdown of 0, from an interfered measurement of 0, is kept).
C1_SlowdownIffMeasured ==
    Inserted =>
        /\ entry.metrics.slowdown # None
             <=> (Solo # None /\ Interfered # None /\ Positive(Solo))
        /\ entry.metrics.slowdown # None =>
             entry.metrics.slowdown[1] * Solo[1] * Interfered[2]
                = Interfered[1] * Solo[2] * entry.metrics.slowdown[2]

\* C2: aggregate_bw of an inserted entry is absent exactly when no core slot
\* has a reading (exactly when attacker_bandwidths is empty); otherwise it is
\* the exact sum of the present readings, whichever slots are absent.
C2_AggregateIsSumOfPresent ==
    Inserted =>
        /\ entry.metrics.aggregate_bw = None <=> PresentCores = {}
        /\ entry.metrics.aggregate_bw = None <=> entry.metrics.attacker_bandwidths = <<>>
        /\ PresentCores # {} =>
             entry.metrics.aggregate_bw
                = Add(ReadingOrZero(1), Add(ReadingOrZero(2), ReadingOrZero(3)))

C2_Witness ==
    /\ Inserted
    /\ Reading(1) = None
    /\ Reading(2) = Zero
    /\ Reading(3) = <<3, 2>>
    /\ entry.metrics.aggregate_bw = <<3, 2>>

\* C9: attacker_bandwidths of an inserted entry is the sequence of the present
\* readings of cores 1, 2, 3 in core order: absent readings are dropped, a
\* reading of 0 is kept, and its length is the number of present readings.
C9_BandwidthsArePresentReadings ==
    Inserted =>
        /\ Len(entry.metrics.attacker_bandwidths) = Cardinality(PresentCores)
        /\ \A core \in PresentCores :
              entry.metrics.attacker_bandwidths[Cardinality({c \in PresentCores : c <= core})]
                 = Reading(core)

C9_Witness ==
    /\ Inserted
    /\ Reading(1) = Zero
    /\ Reading(2) = None
    /\ Reading(3) = <<3, 1>>
    /\ entry.metrics.attacker_bandwidths = <<Zero, <<3, 1>>>>

\* C6: a parser whose pattern matches a text that is not a number returns
\* None; no ValueError leaves parse_victim_log_matmult or parse_attacker_log.
C6_MalformedCaptureIsAbsent ==
    parsed.by \in {"parse_victim_log_matmult", "parse_attacker_log"} =>
        parsed.value # ValueError

CyclesLines == {i \in 1..Len(file.content) : file.content[i].kind = "cycles"}

LastCyclesLine == CHOOSE i \in CyclesLines : \A j \in CyclesLines : j <= i

\* C8: parse_victim_log_sdvbs returns the value of the last line matching
\* 'Cycles elapsed - <digits>' in file order, and None when no line matches
\* or the file is missing.
C8_LastMatchWins ==
    parsed.by = "parse_victim_log_sdvbs" =>
        IF ~file.exists \/ CyclesLines = {}
        THEN parsed.value = None
        ELSE parsed.value = float(file.content[LastCyclesLine].cap)

C8_Witness ==
    /\ parsed.by = "parse_victim_log_sdvbs"
    /\ file = File(<<Line("cycles", <<"1", "0">>), Line("cycles", <<"1">>)>>)
    /\ parsed.value = <<1, 1>>

OneBankCollected ==
    \/ pc \in {"collect_all_banks", "print_summary", "plot_results"}
    \/ pc = "returned" /\ table.printed
    \/ pc = "raised" /\ "all_banks" \in started

AllBanksCollected ==
    \/ pc \in {"print_summary", "plot_results"}
    \/ pc = "returned" /\ table.printed

\* C3: once a collection pass has returned, the keys of its dataset are
\* exactly the keys of the fixed key space whose test-case subdirectory
\* exists: a missing subdirectory adds no entry and stops nothing, an existing
\* one adds one entry even when all its logs are missing.
C3_KeysAreExistingDirs ==
    /\ OneBankCollected =>
          DOMAIN one_bank_results = {k \in Keys(benchmark) : k \in DOMAIN fs["one_bank"].dirs}
    /\ AllBanksCollected =>
          DOMAIN all_banks_results = {k \in Keys(benchmark) : k \in DOMAIN fs["all_banks"].dirs}

C3_Witness ==
    /\ benchmark = "matmult"
    /\ pc = "collect_all_banks"
    /\ DOMAIN fs["one_bank"].dirs = {<<1024, 3>>, <<2048, 4>>}
    /\ fs["one_bank"].dirs[<<2048, 4>>]
          = TestDir(FileNotFound, FileNotFound, <<FileNotFound, FileNotFound, FileNotFound>>)
    /\ DOMAIN one_bank_results = {<<1024, 3>>, <<2048, 4>>}
    /\ one_bank_results[<<2048, 4>>].aggregate_bw = None

\* C4: when a configuration root is missing, no collection is ever started,
\* no summary is printed and no image is written, and the run ends with one
\* error message; a collection starts only when both roots exist.
C4_MissingRootAborts ==
    (~fs["one_bank"].exists \/ ~fs["all_banks"].exists) =>
        /\ started = {}
        /\ ~table.printed
        /\ ~chart.printed
        /\ ~image
        /\ pc \in {"check_one_bank", "check_all_banks", "returned"}
        /\ pc = "returned" => Len(errors) = 1

C4_Witness ==
    /\ pc = "returned"
    /\ fs["one_bank"].exists
    /\ ~fs["all_banks"].exists
    /\ errors = <<"all_banks">>
    /\ started = {}

InOnlyOne == (DOMAIN one_bank_results \cup DOMAIN all_banks_results)
                \ (DOMAIN one_bank_results \cap DOMAIN all_banks_results)

ShowsZeroForMissing(out, k) ==
    \E i \in 1..Len(out.rows) :
        /\ out.rows[i].key = k
        /\ k \notin DOMAIN one_bank_results =>
              out.rows[i].one_slowdown = Zero /\ out.rows[i].one_bw = Zero
        /\ k \notin DOMAIN all_banks_results =>
              out.rows[i].all_slowdown = Zero /\ out.rows[i].all_bw = Zero

\* C5: a key present in only one dataset is included in the text table and
\* in the chart, with slowdown 0 and aggregate bandwidth 0 for the
\* configuration that lacks it, and both reports complete.
C5_MissingSideShownAsZero ==
    /\ pc \in {"plot_results", "returned"} /\ AllBanksCollected => table.printed
    /\ pc = "returned" /\ AllBanksCollected /\ InOnlyOne # {} => chart.printed /\ image
    /\ table.printed => \A k \in InOnlyOne : ShowsZeroForMissing(table, k)
    /\ chart.printed => \A k \in InOnlyOne : ShowsZeroForMissing(chart, k)

C5_Witness ==
    /\ benchmark = "sdvbs"
    /\ pc = "returned"
    /\ chart.printed
    /\ "sift" \in DOMAIN all_banks_results
    /\ "sift" \notin DOMAIN one_bank_results
    /\ all_banks_results["sift"].slowdown = <<3, 1>>

DatasetsKeptByReports ==
    pc \in {"print_summary", "plot_results"} =>
        /\ one_bank_results' = one_bank_results
        /\ all_banks_results' = all_banks_results

\* C7: the summaries and the charts leave both datasets as they were when
\* collection returned, also when a looked-up key is missing from a dataset.
C7_ReportsLeaveDatasets == [][DatasetsKeptByReports]_vars

C7_Witness ==
    /\ pc = "returned"
    /\ table.printed
    /\ chart.printed
    /\ InOnlyOne # {}
    /\ one_bank_results = collect_results(fs["one_bank"]).results
    /\ all_banks_results = collect_results(fs["all_banks"]).results

\* C10: the chart and the text table show the same slowdown and the same
\* aggregate bandwidth for every key and configuration, also for an entry
\* whose aggregate_bw is present and whose slowdown is absent.
C10_ChartMatchesTable ==
    chart.printed => chart.rows = table.rows

====
